---- MODULE Spec2Model ----
(***************************************************************************)
(* Model of the ifile_reader core: the offset correction                  *)
(* (core/corrections/offset.py), the correction pipeline of IFile         *)
(* (api/ifile.py), the axis classification (core/domain/dependencies.py), *)
(* the AxisView / ParameterIndex lookups, the ChannelView reads and the   *)
(* parameter values (core/domain), and the normalisation of a loaded MAT  *)
(* dictionary (core/infrastructure/ifile_reader.py).                      *)
(*                                                                         *)
(* Numbers are exact rationals <<numerator, denominator>> in lowest terms *)
(* with a positive denominator; <<0, 0>> is NaN.  The arithmetic of the   *)
(* model is therefore the arithmetic of float64 without rounding.         *)
(* A numpy array is its shape and its elements in C (row-major) order.    *)
(***************************************************************************)
EXTENDS Integers, Sequences, FiniteSets, TLC

VARIABLES
    raw,          \* IFile._raw: name -> block, the channel entries of the container
    pairs,        \* IFile._raw["_correction_pairs"]: sequence of <<measured, reference>>
    parameters,   \* IFile._raw["parameters"]: the keys, in insertion order
    applied,      \* the pipeline has run to completion over `pairs` and nothing was corrected since
    last,         \* the last call and what it returned or raised
    nops,         \* number of calls made since construction
    views         \* the AxisView and ChannelView objects the caller holds

vars == <<raw, pairs, parameters, applied, last, nops, views>>

-----------------------------------------------------------------------------
(* Bounds of the model *)

MaxOps == 2
MaxRows == 2
MaxCycles == 2
MaxDim == 3
MaxPairs == 2
MaxPipelineOps == 3
MaxQueries == 1
MaxAxisLen == 3
MaxValues == 2
MaxBytes == 2
MaxItems == 2
MaxNormalize == 2
MaxViews == 1
MaxViewOps == 3

\* api/ifile.py line 133: the shortest header date that yields DATE and TIMESTAMP
DateMinLen == 14

-----------------------------------------------------------------------------
(* float arithmetic, without rounding *)

NaN == <<0, 0>>

isnan(x) == x[2] = 0

Abs(n) == IF n < 0 THEN -n ELSE n

RECURSIVE Gcd(_, _)
Gcd(a, b) == IF b = 0 THEN a ELSE Gcd(b, a % b)

\* the float n/d, d # 0
Frac(n, d) ==
    LET g == Gcd(Abs(n), Abs(d))
        s == IF d < 0 THEN -1 ELSE 1
    IN  <<(s * n) \div g, (s * d) \div g>>

Float(n) == <<n, 1>>

FAdd(a, b) == IF isnan(a) \/ isnan(b) THEN NaN ELSE Frac(a[1] * b[2] + b[1] * a[2], a[2] * b[2])

FSub(a, b) == IF isnan(a) \/ isnan(b) THEN NaN ELSE Frac(a[1] * b[2] - b[1] * a[2], a[2] * b[2])

FMul(a, b) == IF isnan(a) \/ isnan(b) THEN NaN ELSE Frac(a[1] * b[1], a[2] * b[2])

\* a / b; 0/0 is NaN, and the model never divides a non-zero number by zero
FDiv(a, b) == IF isnan(a) \/ isnan(b) \/ b[1] = 0 THEN NaN ELSE Frac(a[1] * b[2], a[2] * b[1])

\* comparisons with NaN are false, as in IEEE 754
FLt(a, b) == ~isnan(a) /\ ~isnan(b) /\ a[1] * b[2] < b[1] * a[2]

FAbs(a) == <<Abs(a[1]), a[2]>>

RECURSIVE FSum(_)
FSum(s) == IF s = <<>> THEN Float(0) ELSE FAdd(Head(s), FSum(Tail(s)))

\* the elements of s that satisfy Keep, in order
RECURSIVE SelectNotNaN(_)
SelectNotNaN(s) ==
    IF s = <<>> THEN <<>>
    ELSE IF isnan(Head(s)) THEN SelectNotNaN(Tail(s))
    ELSE <<Head(s)>> \o SelectNotNaN(Tail(s))

\* np.nanmean of a sequence: the mean of the elements that are not NaN (NaN if none)
nanmean(s) ==
    LET v == SelectNotNaN(s)
    IN  IF v = <<>> THEN NaN ELSE FDiv(FSum(v), Float(Len(v)))

-----------------------------------------------------------------------------
(* numpy arrays: [shape |-> <<d1, ..., dn>>, flat |-> elements in C order] *)

RECURSIVE Prod(_)
Prod(s) == IF s = <<>> THEN 1 ELSE Head(s) * Prod(Tail(s))

ndim(a) == Len(a.shape)

size(a) == Len(a.flat)

\* a[:, c] of a 2-D array, c counted from 0
Column(a, c) == [i \in 1..a.shape[1] |-> a.flat[(i - 1) * a.shape[2] + c + 1]]

\* a + v for a 2-D array a and a vector v of a.shape[2] elements (broadcast over the rows)
AddPerColumn(a, v) ==
    [shape |-> a.shape,
     flat  |-> [k \in 1..Len(a.flat) |-> FAdd(a.flat[k], v[((k - 1) % a.shape[2]) + 1])]]

-----------------------------------------------------------------------------
(* core/corrections/offset.py *)

NoExc == "none"
KeyErrorExc == "KeyError"
Expected2D == "ValueError: Expected 2D arrays"
CycleCountMismatch == "ValueError: Cycle count mismatch"
InterpLengths == "ValueError: np.interp: xp is empty or fp and xp differ in length"
BroadcastShapes == "ValueError: operands could not be broadcast together"

\* np.interp(x, xp, fp, left=nan, right=nan) at one point x, for an increasing xp
\* with Len(xp) = Len(fp) >= 1
interp(x, xp, fp) ==
    LET n == Len(xp)
    IN  IF isnan(x) THEN NaN
        ELSE IF FLt(xp[n], x) THEN NaN
        ELSE IF FLt(x, xp[1]) THEN NaN
        ELSE LET j == CHOOSE i \in 1..n :
                         /\ ~FLt(x, xp[i])
                         /\ \A k \in (i + 1)..n : FLt(x, xp[k])
             IN  IF j = n THEN fp[n]
                 ELSE IF xp[j] = x THEN fp[j]
                 ELSE LET slope == FDiv(FSub(fp[j + 1], fp[j]), FSub(xp[j + 1], xp[j]))
                      IN  FAdd(FMul(slope, FSub(x, xp[j])), fp[j])

\* r_cycle - m_interp under numpy broadcasting of two vectors
CanBroadcast(a, b) == a = b \/ a = 1 \/ b = 1

\* the difference taken the wrong way round
CycleDiffReversed(r_cycle, m_interp) ==
    LET a == Len(r_cycle)
        b == Len(m_interp)
        n == IF a = 1 THEN b ELSE a
    IN  [k \in 1..n |-> FSub(m_interp[IF b = 1 THEN 1 ELSE k],
                             r_cycle[IF a = 1 THEN 1 ELSE k])]

CycleDiff(r_cycle, m_interp) ==
    LET a == Len(r_cycle)
        b == Len(m_interp)
        n == IF a = 1 THEN b ELSE a
    IN  [k \in 1..n |-> FSub(r_cycle[IF a = 1 THEN 1 ELSE k],
                             m_interp[IF b = 1 THEN 1 ELSE k])]

\* the mean without the guard for a cycle without valid differences
CycleOffsetUnguarded(diff) == nanmean(diff)

\* lines 36-40: the mean of the valid differences, 0.0 when none is valid
CycleOffset(diff) ==
    IF \A k \in 1..Len(diff) : isnan(diff[k]) THEN Float(0) ELSE nanmean(diff)

\* lines 30-40: the offset of every cycle
per_cycle_offset(m_data, r_data, m_axis, r_axis) ==
    [c \in 1..m_data.shape[2] |->
        LET m_cycle  == Column(m_data, c - 1)
            r_cycle  == Column(r_data, c - 1)
            m_interp == [k \in 1..Len(r_axis) |-> interp(r_axis[k], m_axis, m_cycle)]
        IN  CycleOffset(CycleDiff(r_cycle, m_interp))]

\* the offsets added twice
corrected_twice(m_data, offsets) == AddPerColumn(AddPerColumn(m_data, offsets), offsets)

\* line 45
corrected(m_data, offsets) == AddPerColumn(m_data, offsets)

\* the checks without the comparison of the cycle counts: a reference with fewer
\* cycles than the measured block then fails in r_data[:, c]
CorrectionExcNoCycleCheck(meas, ref) ==
    IF ~({"data", "axis"} \subseteq meas.keys) \/ ~({"data", "axis"} \subseteq ref.keys)
        THEN KeyErrorExc
    ELSE IF ndim(meas.data) # 2 \/ ndim(ref.data) # 2 THEN Expected2D
    ELSE IF meas.data.shape[2] = 0 THEN NoExc
    ELSE IF ref.data.shape[2] < meas.data.shape[2] THEN "IndexError"
    ELSE IF Len(meas.axis) = 0 \/ Len(meas.axis) # meas.data.shape[1] THEN InterpLengths
    ELSE IF ~CanBroadcast(ref.data.shape[1], Len(ref.axis)) THEN BroadcastShapes
    ELSE NoExc

\* what the call raises for two blocks of the container, or NoExc
CorrectionExc(meas, ref) ==
    IF ~({"data", "axis"} \subseteq meas.keys) \/ ~({"data", "axis"} \subseteq ref.keys)
        THEN KeyErrorExc
    ELSE IF ndim(meas.data) # 2 \/ ndim(ref.data) # 2 THEN Expected2D
    ELSE IF meas.data.shape[2] # ref.data.shape[2] THEN CycleCountMismatch
    ELSE IF meas.data.shape[2] = 0 THEN NoExc
    ELSE IF Len(meas.axis) = 0 \/ Len(meas.axis) # meas.data.shape[1] THEN InterpLengths
    ELSE IF ~CanBroadcast(ref.data.shape[1], Len(ref.axis)) THEN BroadcastShapes
    ELSE NoExc

\* the call with the corrected data stored in the reference block
apply_offset_correction_into_ref(container, meas_name, ref_name) ==
    IF meas_name \notin DOMAIN container \/ ref_name \notin DOMAIN container
        THEN [raw |-> container, exc |-> NoExc, skipped |-> TRUE]
    ELSE LET meas == container[meas_name]
             ref  == container[ref_name]
             exc  == CorrectionExc(meas, ref)
         IN  IF exc # NoExc
                 THEN [raw |-> container, exc |-> exc, skipped |-> FALSE]
                 ELSE [raw |-> [container EXCEPT ![ref_name].data =
                                   corrected(meas.data,
                                             per_cycle_offset(meas.data, ref.data,
                                                              meas.axis, ref.axis))],
                       exc |-> NoExc, skipped |-> FALSE]

\* the call without the check for missing names: raw[meas_name] raises KeyError
apply_offset_correction_no_skip(container, meas_name, ref_name) ==
    IF meas_name \notin DOMAIN container \/ ref_name \notin DOMAIN container
        THEN [raw |-> container, exc |-> KeyErrorExc, skipped |-> FALSE]
    ELSE LET meas == container[meas_name]
             ref  == container[ref_name]
             exc  == CorrectionExc(meas, ref)
         IN  IF exc # NoExc
                 THEN [raw |-> container, exc |-> exc, skipped |-> FALSE]
                 ELSE [raw |-> [container EXCEPT ![meas_name].data =
                                   corrected(meas.data,
                                             per_cycle_offset(meas.data, ref.data,
                                                              meas.axis, ref.axis))],
                       exc |-> NoExc, skipped |-> FALSE]

\* the container after the call, and what the call raised
apply_offset_correction(container, meas_name, ref_name) ==
    IF meas_name \notin DOMAIN container \/ ref_name \notin DOMAIN container
        THEN [raw |-> container, exc |-> NoExc, skipped |-> TRUE]
    ELSE LET meas == container[meas_name]
             ref  == container[ref_name]
             exc  == CorrectionExc(meas, ref)
         IN  IF exc # NoExc
                 THEN [raw |-> container, exc |-> exc, skipped |-> FALSE]
                 ELSE [raw |-> [container EXCEPT ![meas_name].data =
                                   corrected(meas.data,
                                             per_cycle_offset(meas.data, ref.data,
                                                              meas.axis, ref.axis))],
                       exc |-> NoExc, skipped |-> FALSE]

-----------------------------------------------------------------------------
(* core/domain/dependencies.py *)

nanmin(s) ==
    LET v == SelectNotNaN(s)
    IN  IF v = <<>> THEN NaN
        ELSE v[CHOOSE i \in 1..Len(v) : \A k \in 1..Len(v) : ~FLt(v[k], v[i])]

\* np.diff
diff(s) == [i \in 1..(Len(s) - 1) |-> FSub(s[i + 1], s[i])]

nanmedian(s) ==
    LET v == SortSeq(SelectNotNaN(s), FLt)
        n == Len(v)
    IN  IF n = 0 THEN NaN
        ELSE IF n % 2 = 1 THEN v[(n + 1) \div 2]
        ELSE FDiv(FAdd(v[n \div 2], v[(n \div 2) + 1]), Float(2))

\* the condition with `and` in the place of `or`
_classify_axis_and(axis) ==
    IF Len(axis) < 2 THEN "CY"
    ELSE LET amin  == nanmin(axis)
             diffs == diff(axis)
             step  == IF Len(diffs) > 0 THEN nanmedian(diffs) ELSE Float(0)
         IN  IF FLt(amin, Float(0)) /\ FLt(FAbs(step), Frac(1, 2)) THEN "CA" ELSE "CY"

_classify_axis(axis) ==
    IF Len(axis) < 2 THEN "CY"
    ELSE LET amin  == nanmin(axis)
             diffs == diff(axis)
             step  == IF Len(diffs) > 0 THEN nanmedian(diffs) ELSE Float(0)
         IN  IF FLt(amin, Float(0)) \/ FLt(FAbs(step), Frac(1, 2)) THEN "CA" ELSE "CY"

-----------------------------------------------------------------------------
(* The containers the model starts from *)

Arr(shape, flat) == [shape |-> shape, flat |-> flat]

EmptyArr == Arr(<<0>>, <<>>)

\* an axis of n samples: start, start + step, ...
Ramp(n, start, step) == [j \in 1..n |-> Float(start + step * (j - 1))]

\* rows x cycles samples: sample i of cycle c is i*i + 3*c - shift*(c + 1), i and c from 0
Samples(rows, cycles, shift) ==
    Arr(<<rows, cycles>>,
        [k \in 1..(rows * cycles) |->
            LET i == (k - 1) \div cycles
                c == (k - 1) % cycles
            IN  Float(i * i + 3 * c - shift * (c + 1))])

Channel(data, axis, units) ==
    [keys |-> {"data", "axis", "units"}, data |-> data, axis |-> axis, units |-> units]

\* a container entry that is a record without data and axis (engine, header, ...)
Record == [keys |-> {"name"}, data |-> EmptyArr, axis |-> <<>>, units |-> ""]

RowCounts == {1, MaxRows}
CycleCounts == {1, MaxCycles}
AxisStarts == {-1, 0, MaxRows + 2}
Shifts == {0, 2}

\* channels whose axis has one point per row of data
WellFormed ==
    { Channel(Samples(r, c, k), Ramp(r, a, 1), "bar") :
        r \in RowCounts, c \in CycleCounts, a \in AxisStarts, k \in Shifts }

\* the same samples on an axis of step 2, and with a sample that is NaN
Variants ==
    { Channel(Samples(MaxRows, MaxCycles, 1), Ramp(MaxRows, 0, 2), "bar"),
      Channel([Samples(MaxRows, MaxCycles, 0) EXCEPT !.flat[1] = NaN], Ramp(MaxRows, 0, 1), "bar"),
      Channel(Arr(<<MaxRows, MaxCycles>>, [k \in 1..(MaxRows * MaxCycles) |-> NaN]),
              Ramp(MaxRows, 0, 1), "bar") }

\* channels no correction accepts, and channels whose axis does not fit the data
Irregular ==
    { Channel(Samples(MaxRows, MaxCycles, 0), Ramp(MaxRows + 1, 0, 1), "bar"),
      Channel(Samples(MaxRows, MaxCycles, 0), <<>>, "bar"),
      Channel(Arr(<<MaxRows>>, Ramp(MaxRows, 5, 1)), Ramp(MaxRows, 0, 1), "bar"),
      Record }

Blocks == WellFormed \cup Variants \cup Irregular

Names == {"PSAUG", "SDREF"}

\* `last` before any call; before is the container and the registry as the call found
\* them, and the arguments of the call before it
NoCall == [op |-> "init", args |-> <<>>, exc |-> NoExc, ret |-> "None", skipped |-> FALSE,
           before |-> [raw |-> <<>>, pairs |-> <<>>, applied |-> FALSE, args |-> <<>>]]

Containers == UNION { [D -> Blocks] : D \in SUBSET Names }

Init ==
    /\ raw \in Containers
    /\ pairs = <<>>
    /\ parameters = <<>>
    /\ applied = FALSE
    /\ last = NoCall
    /\ views = <<>>
    /\ nops = 0

\* a direct call apply_offset_correction(raw, meas_name, ref_name)
ApplyOffsetCorrection(meas_name, ref_name) ==
    /\ nops < MaxOps
    /\ LET res == apply_offset_correction(raw, meas_name, ref_name)
       IN  /\ raw' = res.raw
           /\ last' = [op |-> "apply_offset_correction", args |-> <<meas_name, ref_name>>,
                       exc |-> res.exc, ret |-> "None", skipped |-> res.skipped,
                       before |-> [raw |-> raw, pairs |-> pairs, applied |-> applied,
                                   args |-> last.args]]
    /\ applied' = FALSE
    /\ nops' = nops + 1
    /\ UNCHANGED <<pairs, parameters, views>>

Next == \E m \in Names, r \in Names : ApplyOffsetCorrection(m, r)

Spec == Init /\ [][Next]_vars

-----------------------------------------------------------------------------
(* api/ifile.py: the correction pipeline of IFile *)

\* the spelling of the channel names, for str.endswith
Spelling ==
    [PSAUG |-> <<"P", "S", "A", "U", "G">>,
     TSAUG |-> <<"T", "S", "A", "U", "G">>,
     SDREF |-> <<"S", "D", "R", "E", "F">>,
     PAUSP |-> <<"P", "A", "U", "S", "P">>,
     ADREF |-> <<"A", "D", "R", "E", "F">>]

PipelineNames == {"PSAUG", "TSAUG", "SDREF"}

\* a test for a suffix that every name passes
endswith_any(ch, suffix) == TRUE

endswith(ch, suffix) ==
    LET w == Spelling[ch]
    IN  /\ Len(w) >= Len(suffix)
        /\ SubSeq(w, Len(w) - Len(suffix) + 1, Len(w)) = suffix

\* the entries with data and axis, of either kind
_channels_unfiltered(container, kind) ==
    { name \in DOMAIN container : {"data", "axis"} \subseteq container[name].keys }

\* AxisView._channels: the entries with data and axis whose axis classifies to kind
_channels(container, kind) ==
    { name \in DOMAIN container :
        /\ {"data", "axis"} \subseteq container[name].keys
        /\ _classify_axis(container[name].axis) = kind }

\* the orders in which a Python set of names can be iterated
Orderings(S) ==
    { q \in [1..Cardinality(S) -> S] : \A i, j \in 1..Cardinality(S) : i # j => q[i] # q[j] }

\* the dicts _find_reference_channels can return, as sequences of <<measured, reference>>
\* in insertion order; ca_channels is a set, so each group is inserted in any order
_find_reference_channels(container) ==
    LET ca_channels == _channels(container, "CA")
        saug == IF "SDREF" \in ca_channels
                    THEN { ch \in ca_channels : endswith(ch, <<"S", "A", "U", "G">>) }
                    ELSE {}
        ausp == IF "ADREF" \in ca_channels
                    THEN { ch \in ca_channels : endswith(ch, <<"A", "U", "S", "P">>) }
                    ELSE {}
    IN  { [i \in 1..Len(q1) |-> <<q1[i], "SDREF">>] \o [i \in 1..Len(q2) |-> <<q2[i], "ADREF">>] :
            q1 \in Orderings(saug), q2 \in Orderings(ausp) }

\* the loop that goes on after a correction that raises and raises at its end
RECURSIVE reapply_corrections_isolated(_, _)
reapply_corrections_isolated(container, ps) ==
    IF ps = <<>> THEN [raw |-> container, exc |-> NoExc]
    ELSE LET res  == apply_offset_correction(container, Head(ps)[1], Head(ps)[2])
             rest == reapply_corrections_isolated(res.raw, Tail(ps))
         IN  [raw |-> rest.raw, exc |-> IF res.exc # NoExc THEN res.exc ELSE rest.exc]

\* the loop of model_post_init and of reapply_corrections: the corrections in the
\* order of the registry, up to the first one that raises
RECURSIVE reapply_corrections(_, _)
reapply_corrections(container, ps) ==
    IF ps = <<>> THEN [raw |-> container, exc |-> NoExc]
    ELSE LET res == apply_offset_correction(container, Head(ps)[1], Head(ps)[2])
         IN  IF res.exc # NoExc THEN [raw |-> res.raw, exc |-> res.exc]
             ELSE reapply_corrections(res.raw, Tail(ps))

\* the channels a loaded file can hold: two crank-angle channels that differ in
\* level and in axis step, a cycle-resolved channel of one cycle, and a channel
\* whose data has one dimension
PipelineBlocks ==
    { Channel(Samples(MaxRows, MaxCycles, 0), Ramp(MaxRows, -1, 1), "bar"),
      Channel(Samples(MaxRows, MaxCycles, 2), Ramp(MaxRows, -1, 2), "bar"),
      Channel(Samples(MaxRows, 1, 0), Ramp(MaxRows, 0, 1), "bar"),
      Channel(Arr(<<MaxRows>>, Ramp(MaxRows, 5, 1)), Ramp(MaxRows, -1, 1), "bar") }

LoadedFiles == UNION { [D -> PipelineBlocks] : D \in SUBSET PipelineNames }

\* the arguments of set_correction_pairs: dicts of at most MaxPairs entries, each
\* pairing a measured name with another name as its reference
PairChoices ==
    UNION { { q \in [1..n -> { p \in PipelineNames \X PipelineNames : p[1] # p[2] }] :
                \A i, j \in 1..n : i # j => q[i][1] # q[j][1] } : n \in 0..MaxPairs }

\* model_post_init, lines 149-154: a file whose corrections raise constructs no IFile
InitPipeline ==
    \E loaded \in LoadedFiles, avl_correction \in BOOLEAN :
        /\ IF avl_correction
              THEN \E found \in _find_reference_channels(loaded) :
                      /\ reapply_corrections(loaded, found).exc = NoExc
                      /\ raw = reapply_corrections(loaded, found).raw
                      /\ pairs = found
              ELSE raw = loaded /\ pairs = <<>>
        /\ applied = avl_correction
        /\ parameters = <<>>
        /\ last = NoCall
        /\ views = <<>>
        /\ nops = 0

\* set_correction_pairs(ps); the model lets the caller replace the registry only
\* as the first call on the IFile
SetCorrectionPairs ==
    /\ nops = 0
    /\ nops < MaxPipelineOps
    /\ \E ps \in PairChoices :
           /\ pairs' = ps
           /\ last' = [NoCall EXCEPT !.op = "set_correction_pairs", !.args = ps]
    /\ applied' = FALSE
    /\ nops' = nops + 1
    /\ UNCHANGED <<raw, parameters, views>>

ReapplyCorrections ==
    /\ nops < MaxPipelineOps
    /\ LET res == reapply_corrections(raw, pairs)
       IN  /\ raw' = res.raw
           /\ applied' = (res.exc = NoExc)
           /\ last' = [op |-> "reapply_corrections", args |-> <<>>, exc |-> res.exc,
                       ret |-> "None", skipped |-> FALSE,
                       before |-> [raw |-> raw, pairs |-> pairs, applied |-> applied,
                                   args |-> last.args]]
    /\ nops' = nops + 1
    /\ UNCHANGED <<pairs, parameters, views>>

NextPipeline ==
    \/ SetCorrectionPairs
    \/ ReapplyCorrections

SpecPipeline == InitPipeline /\ [][NextPipeline]_vars

-----------------------------------------------------------------------------
(* core/domain/axis.py, core/domain/parameter.py: the lookup collections *)

TypeErrorExc == "TypeError"

\* AxisView.__getitem__(channel): the name of the ChannelView returned, or KeyError
AxisView__getitem__(container, kind, channel) ==
    LET chans == _channels(container, kind)
    IN  IF channel \notin chans
            THEN [exc |-> KeyErrorExc, ret |-> "None"]
            ELSE [exc |-> NoExc, ret |-> channel]

\* `channel in view`: AxisView defines no __contains__, so this is the one of
\* collections.abc.Mapping: try self[key], False on KeyError, else True
AxisView__contains__(container, kind, channel) ==
    LET got == AxisView__getitem__(container, kind, channel)
    IN  IF got.exc = KeyErrorExc THEN [exc |-> NoExc, ret |-> FALSE]
        ELSE IF got.exc # NoExc THEN [exc |-> got.exc, ret |-> "None"]
        ELSE [exc |-> NoExc, ret |-> TRUE]

\* model_post_init, lines 76-147: the keys of raw["parameters"], in insertion order,
\* for a file whose engine record has the fields `engine` and whose header date is
\* a string of date_len characters (date_len < 0: no date string)
EngineParameters ==
    << <<"name", "ENGINE">>, <<"bore", "BORE">>, <<"stroke", "STROKE">>,
       <<"conrod_length", "CONROD">>, <<"compression_ratio", "EPSILON">>,
       <<"number_of_strokes", "NRSTROKE">>, <<"pin_offset", "PINOFF">> >>

RECURSIVE EngineKeys(_, _)
EngineKeys(engine, fields) ==
    IF fields = <<>> THEN <<>>
    ELSE (IF Head(fields)[1] \in engine THEN <<Head(fields)[2]>> ELSE <<>>)
         \o EngineKeys(engine, Tail(fields))

model_post_init_parameters(engine, date_len) ==
    EngineKeys(engine, EngineParameters)
    \o (IF date_len >= DateMinLen THEN <<"DATE", "TIMESTAMP">> ELSE <<>>)

None == [isdict |-> FALSE, keys |-> <<>>]

\* raw.get("parameters") or raw.get("PAR"): an empty dict is falsy, and the
\* containers of the model hold no entry named PAR
ParameterIndex_params(params) ==
    IF params # <<>> THEN [isdict |-> TRUE, keys |-> params] ELSE None

InKeys(key, keys) == \E i \in 1..Len(keys) : keys[i] = key

ParameterIndex__getitem__(params, key) ==
    LET p == ParameterIndex_params(params)
    IN  IF ~p.isdict THEN [exc |-> TypeErrorExc, ret |-> "None"]
        ELSE IF ~InKeys(key, p.keys) THEN [exc |-> KeyErrorExc, ret |-> "None"]
        ELSE [exc |-> NoExc, ret |-> key]

ParameterIndex__len__(params) ==
    LET p == ParameterIndex_params(params)
    IN  IF ~p.isdict THEN [exc |-> TypeErrorExc, ret |-> "None"]
        ELSE [exc |-> NoExc, ret |-> Len(p.keys)]

ParameterIndex__iter__(params) ==
    LET p == ParameterIndex_params(params)
    IN  IF ~p.isdict THEN [exc |-> TypeErrorExc, ret |-> "None"]
        ELSE [exc |-> NoExc, ret |-> p.keys]

\* the entries a loaded file can hold: a crank-angle channel, two cycle channels
\* (one of a single sample), an entry with data and no axis, and a plain record
IndexBlocks ==
    { Channel(Samples(MaxRows, MaxCycles, 0), Ramp(MaxRows, -1, 1), "bar"),
      Channel(Samples(MaxRows, MaxCycles, 0), Ramp(MaxRows, 0, 1), "bar"),
      Channel(Samples(1, MaxCycles, 0), Ramp(1, -1, 1), "bar"),
      [Channel(Samples(MaxRows, MaxCycles, 0), <<>>, "bar") EXCEPT !.keys = {"data", "units"}],
      Record }

Engines ==
    { {}, {"name"}, {"bore", "stroke"},
      { EngineParameters[i][1] : i \in 1..Len(EngineParameters) } }

DateLens == {-1, DateMinLen - 1, DateMinLen}

AxisKinds == {"CA", "CY"}

ParameterKeys == {"ENGINE", "STROKE", "TIMESTAMP", "NOSUCH"}

InitIndex ==
    /\ raw \in UNION { [D -> IndexBlocks] : D \in SUBSET Names }
    /\ pairs = <<>>
    /\ \E engine \in Engines, date_len \in DateLens :
           parameters = model_post_init_parameters(engine, date_len)
    /\ applied = FALSE
    /\ last = NoCall
    /\ views = <<>>
    /\ nops = 0

Query(op, args, res) ==
    /\ nops < MaxQueries
    /\ last' = [NoCall EXCEPT !.op = op, !.args = args, !.exc = res.exc, !.ret = res.ret]
    /\ nops' = nops + 1
    /\ UNCHANGED <<raw, pairs, parameters, applied, views>>

\* ifile[kind][channel]
AxisGetItem(kind, channel) ==
    Query("AxisView.__getitem__", <<kind, channel>>, AxisView__getitem__(raw, kind, channel))

\* channel in ifile[kind]
AxisContains(kind, channel) ==
    Query("AxisView.__contains__", <<kind, channel>>, AxisView__contains__(raw, kind, channel))

\* ifile.parameters[key]
ParameterGetItem(key) ==
    Query("ParameterIndex.__getitem__", <<key>>, ParameterIndex__getitem__(parameters, key))

\* len(ifile.parameters)
ParameterLen == Query("ParameterIndex.__len__", <<>>, ParameterIndex__len__(parameters))

\* list(ifile.parameters)
ParameterIter == Query("ParameterIndex.__iter__", <<>>, ParameterIndex__iter__(parameters))

NextIndex ==
    \/ \E kind \in AxisKinds, channel \in Names : AxisGetItem(kind, channel)
    \/ \E kind \in AxisKinds, channel \in Names : AxisContains(kind, channel)
    \/ \E key \in ParameterKeys : ParameterGetItem(key)
    \/ ParameterLen
    \/ ParameterIter

SpecIndex == InitIndex /\ [][NextIndex]_vars

-----------------------------------------------------------------------------
(* core/domain/channel.py: the VALUES mapping of a channel *)

\* the position in C order of the element of 0-based index idx, and its inverse
RECURSIVE Ravel(_, _)
Ravel(idx, shape) ==
    IF shape = <<>> THEN 0
    ELSE Head(idx) * Prod(Tail(shape)) + Ravel(Tail(idx), Tail(shape))

RECURSIVE Unravel(_, _)
Unravel(k, shape) ==
    IF shape = <<>> THEN <<>>
    ELSE <<k \div Prod(Tail(shape))>> \o Unravel(k % Prod(Tail(shape)), Tail(shape))

\* a.reshape(-1)
reshape(a) == a.flat

\* a.T of a 2-D array
T(a) ==
    Arr(<<a.shape[2], a.shape[1]>>,
        [k \in 1..Len(a.flat) |->
            LET j == (k - 1) \div a.shape[1]
                i == (k - 1) % a.shape[1]
            IN  a.flat[i * a.shape[2] + j + 1]])

\* np.tile(v, n): v, n times over
tile(v, n) == [k \in 1..(Len(v) * n) |-> v[((k - 1) % Len(v)) + 1]]

\* np.repeat(v, n): each element of v, n times in a row
repeat(v, n) == [k \in 1..(Len(v) * n) |-> v[((k - 1) \div n) + 1]]

\* np.resize(v, n) of a non-empty v: v cycled to n elements
resize(v, n) == [k \in 1..n |-> v[((k - 1) % Len(v)) + 1]]

\* np.arange(n)
arange(n) == [k \in 1..n |-> Float(k - 1)]

\* np.moveaxis(a, d, -1), the dimension d counted from 1
moveaxis(a, d) ==
    LET n      == Len(a.shape)
        shape2 == [p \in 1..n |-> IF p < d THEN a.shape[p]
                                   ELSE IF p < n THEN a.shape[p + 1] ELSE a.shape[d]]
        src(idx2) == [p \in 1..n |-> IF p < d THEN idx2[p]
                                      ELSE IF p = d THEN idx2[n] ELSE idx2[p - 1]]
    IN  Arr(shape2, [k \in 1..Len(a.flat) |->
                        a.flat[Ravel(src(Unravel(k - 1, shape2)), a.shape) + 1]])

\* the first dimension of data, counted from 1, whose size is that of a non-empty
\* axis; 0 for axis_dim = None
axis_dim(data, axis) ==
    LET fits == { i \in 1..Len(data.shape) : data.shape[i] = Len(axis) /\ Len(axis) > 0 }
    IN  IF fits = {} THEN 0 ELSE CHOOSE i \in fits : \A j \in fits : i <= j

\* out[key] = column of a dict held as the sequence of its items in insertion order
SetItem(out, key, column) ==
    IF \E i \in 1..Len(out) : out[i][1] = key
        THEN [i \in 1..Len(out) |-> IF out[i][1] = key THEN <<key, column>> ELSE out[i]]
        ELSE Append(out, <<key, column>>)

\* a key of the mapping: <<"CA", 0>>, <<name, 0>> for name, <<name, i>> for f"{name}_{i}"
Key(name, i) == <<name, i>>

\* the declared component names of the block, or those synthesized from name
comp_names(name, block, n) ==
    IF "channel_names" \in block.keys /\ Len(block.channel_names) = n
        THEN block.channel_names
        ELSE [i \in 1..n |-> Key(name, i)]

RECURSIVE SetComponents(_, _, _, _, _)
SetComponents(out, names, flat, per, i) ==
    IF i > Len(names) THEN out
    ELSE SetComponents(SetItem(out, names[i], SubSeq(flat, (i - 1) * per + 1, i * per)),
                       names, flat, per, i + 1)

ValuesFallback(name, data, axis) ==
    SetItem(SetItem(<<>>, Key("CA", 0),
                    IF Len(axis) > 0 THEN resize(axis, size(data)) ELSE arange(size(data))),
            Key(name, 0), reshape(data))

_build_values_mapping(name, block) ==
    LET data == block.data
        axis == block.axis
    IN  IF size(data) = 0
            THEN SetItem(SetItem(<<>>, Key("CA", 0), <<>>), Key(name, 0), <<>>)
        ELSE IF ndim(data) = 1
            THEN SetItem(SetItem(<<>>, Key("CA", 0),
                                 IF Len(axis) = size(data) THEN axis
                                 ELSE IF Len(axis) > 0 THEN resize(axis, size(data))
                                 ELSE arange(size(data))),
                         Key(name, 0), reshape(data))
        ELSE IF ndim(data) = 2
            THEN IF Len(axis) = data.shape[2]
                     THEN SetItem(SetItem(<<>>, Key("CA", 0), tile(axis, data.shape[1])),
                                  Key(name, 0), reshape(data))
                 ELSE IF Len(axis) = data.shape[1]
                     THEN SetItem(SetItem(<<>>, Key("CA", 0), repeat(axis, data.shape[2])),
                                  Key(name, 0), reshape(T(data)))
                 ELSE ValuesFallback(name, data, axis)
        ELSE IF ndim(data) >= 3 /\ axis_dim(data, axis) # 0
            THEN LET d2      == moveaxis(data, axis_dim(data, axis))
                     leading == SubSeq(d2.shape, 1, Len(d2.shape) - 1)
                     total   == Prod(leading) * d2.shape[Len(d2.shape)]
                     ca      == SetItem(<<>>, Key("CA", 0), tile(axis, total \div Len(axis)))
                 IN  IF leading[1] > 1
                         THEN SetComponents(ca, comp_names(name, block, leading[1]),
                                            d2.flat, total \div leading[1], 1)
                         ELSE SetItem(ca, Key(name, 0), reshape(d2))
        ELSE ValuesFallback(name, data, axis)

\* the flattening that does not transpose data whose rows match the axis
_flatten_primary_no_transpose(block) ==
    LET data == block.data
        axis == block.axis
    IN  IF size(data) = 0 THEN <<>>
        ELSE IF ndim(data) >= 3 /\ axis_dim(data, axis) # 0
            THEN reshape(moveaxis(data, axis_dim(data, axis)))
        ELSE reshape(data)

\* ChannelView._flatten_primary: the samples of the channel as one sequence
_flatten_primary(block) ==
    LET data == block.data
        axis == block.axis
    IN  IF size(data) = 0 THEN <<>>
        ELSE IF ndim(data) = 1 THEN reshape(data)
        ELSE IF ndim(data) = 2
            THEN IF Len(axis) = data.shape[2] THEN reshape(data)
                 ELSE IF Len(axis) = data.shape[1] THEN reshape(T(data))
                 ELSE reshape(data)
        ELSE IF ndim(data) >= 3 /\ axis_dim(data, axis) # 0
            THEN reshape(moveaxis(data, axis_dim(data, axis)))
        ELSE reshape(data)

\* _format_range_from_axis: the numbers the text "a0[unit] to a1 step s" is made of,
\* <<>> for the empty text
_format_range_from_axis(axis, unit) ==
    IF Len(axis) < 2 THEN <<>>
    ELSE <<axis[1], unit, axis[Len(axis)], nanmedian(diff(axis))>>

\* _build_channel_general: the GENERAL metadata of a channel
_build_channel_general(name, block) ==
    LET axis_type == _classify_axis(block.axis)
    IN  [Channel     |-> name,
         Units       |-> block.units,
         Description |-> "",
         Base        |-> IF axis_type = "CA" THEN "Crank Angle" ELSE "Cycle",
         RecordCount |-> size(block.data),
         Range       |-> _format_range_from_axis(block.axis,
                                                 IF axis_type = "CA" THEN "deg" ELSE "-")]

\* data of the given shape whose element of position k in C order is k
Labelled(shape) == Arr(shape, [k \in 1..Prod(shape) |-> Float(k - 1)])

Shapes ==
    {<<>>}
    \cup { <<n>> : n \in 0..MaxDim }
    \cup { <<r, c>> : r \in 0..MaxDim, c \in 0..MaxDim }
    \cup { <<a, b, c>> : a \in 1..MaxDim, b \in 1..MaxDim, c \in 1..MaxDim }

\* the component names a block declares: none, or a list of 2 or of MaxDim names
Declared == { <<>> } \cup { [i \in 1..n |-> Key("CYL", i)] : n \in {2, MaxDim} }

ValuesBlocks ==
    { [keys |-> {"data", "axis", "units"} \cup (IF names = <<>> THEN {} ELSE {"channel_names"}),
       data |-> Labelled(shape), axis |-> Ramp(n, 100, 10), units |-> "bar",
       channel_names |-> names] :
      shape \in Shapes, n \in 0..MaxDim, names \in Declared }

InitValues ==
    /\ raw \in [{"PSAUG"} -> ValuesBlocks]
    /\ pairs = <<>>
    /\ parameters = <<>>
    /\ applied = FALSE
    /\ last = NoCall
    /\ views = <<>>
    /\ nops = 0

\* ifile[kind][name]["VALUES"]
BuildValues(name) ==
    /\ nops < MaxQueries
    /\ name \in DOMAIN raw
    /\ last' = [NoCall EXCEPT !.op = "VALUES", !.args = <<name>>,
                              !.ret = _build_values_mapping(name, raw[name])]
    /\ nops' = nops + 1
    /\ UNCHANGED <<raw, pairs, parameters, applied, views>>

\* ifile[kind][name][:], len(channel), iter(channel)
FlattenPrimary(name) ==
    /\ nops < MaxQueries
    /\ name \in DOMAIN raw
    /\ last' = [NoCall EXCEPT !.op = "_flatten_primary", !.args = <<name>>,
                              !.ret = _flatten_primary(raw[name])]
    /\ nops' = nops + 1
    /\ UNCHANGED <<raw, pairs, parameters, applied, views>>

\* ifile[kind][name]["GENERAL"]
BuildGeneral(name) ==
    /\ nops < MaxQueries
    /\ name \in DOMAIN raw
    /\ last' = [NoCall EXCEPT !.op = "GENERAL", !.args = <<name>>,
                              !.ret = _build_channel_general(name, raw[name])]
    /\ nops' = nops + 1
    /\ UNCHANGED <<raw, pairs, parameters, applied, views>>

NextValues ==
    \/ \E name \in Names : BuildValues(name)
    \/ \E name \in Names : FlattenPrimary(name)
    \/ \E name \in Names : BuildGeneral(name)

SpecValues == InitValues /\ [][NextValues]_vars

-----------------------------------------------------------------------------
(* core/domain/dependencies.py: the classification of any axis *)

\* the samples an axis is made of: negative, zero, fractional, whole, and NaN
AxisValues == { Float(-1), Float(0), Frac(1, 4), Float(1), Float(3), NaN }

AxisSequences == UNION { [1..n -> AxisValues] : n \in 0..MaxAxisLen }

InitClassify ==
    /\ raw \in { [PSAUG |-> Channel(Arr(<<Len(axis)>>, axis), axis, "deg")] :
                   axis \in AxisSequences }
    /\ pairs = <<>>
    /\ parameters = <<>>
    /\ applied = FALSE
    /\ last = NoCall
    /\ views = <<>>
    /\ nops = 0

\* _classify_axis(np.asarray(block["axis"])) for the entry name
ClassifyAxis(name) ==
    /\ nops < MaxQueries
    /\ name \in DOMAIN raw
    /\ last' = [NoCall EXCEPT !.op = "_classify_axis", !.args = <<name>>,
                              !.ret = _classify_axis(raw[name].axis)]
    /\ nops' = nops + 1
    /\ UNCHANGED <<raw, pairs, parameters, applied, views>>

NextClassify == \E name \in Names : ClassifyAxis(name)

SpecClassify == InitClassify /\ [][NextClassify]_vars

-----------------------------------------------------------------------------
(* core/domain/parameter.py: the VALUES of a parameter *)

\* Python values: a float, a str (its characters), None; a parameter block is one
\* of these or a dict with the keys `keys`
Py(type, num, str) == [type |-> type, num |-> num, str |-> str]

PyNone == Py("None", NaN, <<>>)

PyFloat(x) == Py("float", x, <<>>)

PyStr(chars) == Py("str", NaN, chars)

Digits == [c \in {"0", "1", "2", "3", "4", "5", "6", "7", "8", "9"} |->
              CASE c = "0" -> 0 [] c = "1" -> 1 [] c = "2" -> 2 [] c = "3" -> 3 [] c = "4" -> 4
                [] c = "5" -> 5 [] c = "6" -> 6 [] c = "7" -> 7 [] c = "8" -> 8 [] c = "9" -> 9]

\* the number spelt by a string of digits
RECURSIVE Numeral(_)
Numeral(chars) ==
    IF chars = <<>> THEN 0
    ELSE 10 * Numeral(SubSeq(chars, 1, Len(chars) - 1)) + Digits[chars[Len(chars)]]

\* float(x): a float is itself, a str of digits is the number it spells; any other
\* str, None, a list and a dict raise
float(x) ==
    IF x.type = "float" THEN [ok |-> TRUE, val |-> PyFloat(x.num)]
    ELSE IF x.type = "str" /\ x.str # <<>> /\ \A i \in 1..Len(x.str) : x.str[i] \in DOMAIN Digits
        THEN [ok |-> TRUE, val |-> PyFloat(Float(Numeral(x.str)))]
    ELSE [ok |-> FALSE, val |-> PyFloat(NaN)]

\* bool(x)
truthy(x) ==
    \/ x.type = "float" /\ x.num # Float(0)
    \/ x.type = "str" /\ x.str # <<>>

\* lines 14-18: the branch of the parameter named TIMESTAMP
extract_timestamp(p) ==
    IF "value" \in p.keys /\ truthy(p.value) THEN [exc |-> NoExc, val |-> p.value]
    ELSE IF "values" \notin p.keys THEN [exc |-> NoExc, val |-> PyNone]
    ELSE IF p.values = <<>> THEN [exc |-> "IndexError", val |-> PyNone]
    ELSE [exc |-> NoExc, val |-> p.values[1]]

\* lines 19-52: any other dict
extract_dict(p) ==
    LET val == IF "value" \in p.keys THEN p.value
               ELSE IF "values" \in p.keys
                   THEN IF p.values # <<>> /\ float(p.values[1]).ok
                            THEN float(p.values[1]).val
                            ELSE PyFloat(NaN)
               ELSE PyFloat(NaN)
    IN  [exc |-> NoExc, val |-> IF float(val).ok THEN float(val).val ELSE PyFloat(NaN)]

\* lines 54-73: a block that is no dict
extract_scalar(p) ==
    [exc |-> NoExc, val |-> IF float(p).ok THEN float(p).val ELSE PyFloat(NaN)]

\* the value _extract_param_components(pname, p) returns, or what it raises
_extract_param_components(pname, p) ==
    IF p.type = "None" THEN [exc |-> NoExc, val |-> PyFloat(NaN)]
    ELSE IF p.type = "dict" /\ pname = "TIMESTAMP" THEN extract_timestamp(p)
    ELSE IF p.type = "dict" THEN extract_dict(p)
    ELSE extract_scalar(p)

\* ParameterView._build_values: the items of the mapping in insertion order
_build_values(pname, p) ==
    LET got == _extract_param_components(pname, p)
    IN  IF got.exc # NoExc THEN [exc |-> got.exc, ret |-> "None"]
        ELSE [exc |-> NoExc,
              ret |-> SetItem(SetItem(<<>>, "", <<PyFloat(Float(0))>>), pname,
                              << IF got.val.type = "str" THEN got.val
                                 ELSE IF got.val.type = "float" THEN got.val
                                 ELSE PyFloat(NaN) >>)]

\* the scalars a file declares: numbers, a name, a string of digits
ParameterScalars ==
    { PyFloat(Float(0)), PyFloat(Float(5)), PyStr(<<"V", "8">>), PyStr(<<"1", "2">>) }

ValueLists == UNION { [1..n -> ParameterScalars] : n \in 0..MaxValues }

Block(type, num, str, keys, value, values) ==
    [type |-> type, num |-> num, str |-> str, keys |-> keys, value |-> value, values |-> values]

\* a block that is a scalar or None
ScalarBlock(x) == Block(x.type, x.num, x.str, {}, PyNone, <<>>)

\* the blocks of raw["parameters"]: dicts with unit and description and with or
\* without value and values, bare scalars, and None
ParameterBlocks ==
    { Block("dict", NaN, <<>>, {"unit", "description", "value", "values"}, v, vs) :
        v \in ParameterScalars, vs \in ValueLists }
    \cup { Block("dict", NaN, <<>>, {"unit", "description", "value"}, v, <<>>) :
             v \in ParameterScalars }
    \cup { Block("dict", NaN, <<>>, {"unit", "description", "values"}, PyNone, vs) :
             vs \in ValueLists }
    \cup { Block("dict", NaN, <<>>, {"unit", "description"}, PyNone, <<>>) }
    \cup { ScalarBlock(x) : x \in ParameterScalars \cup {PyNone} }

ParameterNames == {"ENGINE", "BORE", "TIMESTAMP"}

\* raw holds the entries of raw["parameters"]
InitParameter ==
    /\ \E pname \in ParameterNames, p \in ParameterBlocks :
          /\ raw = (pname :> p)
          /\ parameters = <<pname>>
    /\ pairs = <<>>
    /\ applied = FALSE
    /\ last = NoCall
    /\ views = <<>>
    /\ nops = 0

\* ifile.parameters[pname]["VALUES"]
ParameterValues(pname) ==
    /\ nops < MaxQueries
    /\ pname \in DOMAIN raw
    /\ LET res == _build_values(pname, raw[pname])
       IN  last' = [NoCall EXCEPT !.op = "ParameterView.VALUES", !.args = <<pname>>,
                                  !.exc = res.exc, !.ret = res.ret]
    /\ nops' = nops + 1
    /\ UNCHANGED <<raw, pairs, parameters, applied, views>>

NextParameter == \E pname \in ParameterNames : ParameterValues(pname)

SpecParameter == InitParameter /\ [][NextParameter]_vars

-----------------------------------------------------------------------------
(* core/infrastructure/ifile_reader.py: the normalizer of the loaded container *)

\* a value of the loaded container: tag is its Python type; items are the fields
\* (named by names), the elements of a list, or the elements of a 1-D ndarray;
\* bytes are the bytes of a bytes object or the code points of a str
Value(tag, dtype, names, items, bytes, num) ==
    [tag |-> tag, dtype |-> dtype, names |-> names, items |-> items, bytes |-> bytes, num |-> num]

PyBytes(b) == Value("bytes", "", <<>>, <<>>, b, NaN)

PyText(codes) == Value("str", "", <<>>, <<>>, codes, NaN)

PyNumber(x) == Value("float", "", <<>>, <<>>, <<>>, x)

PyList(items) == Value("list", "", <<>>, items, <<>>, NaN)

PyDict(names, items) == Value("dict", "", names, items, <<>>, NaN)

MatStruct(names, items) == Value("mat_struct", "", names, items, <<>>, NaN)

\* a 1-D numpy array; the elements of a float64 array are floats, those of an S
\* (byte string) array are bytes objects, those of an object array are any values
NdArray(dtype, items) == Value("ndarray", dtype, <<>>, items, <<>>, NaN)

\* a numpy scalar (np.generic) of dtype float64 or S
NpGeneric(dtype, bytes, num) == Value("generic", dtype, <<>>, <<>>, bytes, num)

\* x.decode("utf-8", errors="ignore") for bytes below 0xE0: an ASCII byte is its
\* character, a lead byte 0xC2..0xDF with a continuation byte is one character,
\* and any other byte is dropped
RECURSIVE decode_ignore(_)
decode_ignore(b) ==
    IF b = <<>> THEN <<>>
    ELSE IF b[1] < 128 THEN <<b[1]>> \o decode_ignore(Tail(b))
    ELSE IF b[1] \in 194..223 /\ Len(b) >= 2 /\ b[2] \in 128..191
        THEN <<(b[1] - 192) * 64 + (b[2] - 128)>> \o decode_ignore(SubSeq(b, 3, Len(b)))
    ELSE decode_ignore(Tail(b))

_decode_bytes(x) == IF x.tag = "bytes" THEN PyText(decode_ignore(x.bytes)) ELSE x

\* x.item() of an array of one element and of a numpy scalar
item_of(x) ==
    IF x.tag = "ndarray" THEN x.items[1]
    ELSE IF x.dtype = "S" THEN PyBytes(x.bytes)
    ELSE PyNumber(x.num)

\* _convert_matobj, with _ndarray_to_py (lines 163-174) in its ndarray branch
RECURSIVE _convert_matobj(_, _)
_convert_matobj(matobj, convert_arrays) ==
    IF matobj.tag = "mat_struct"
        THEN PyDict(matobj.names,
                    [i \in 1..Len(matobj.items) |->
                        _convert_matobj(matobj.items[i], convert_arrays)])
    ELSE IF matobj.tag = "list"
        THEN PyList([i \in 1..Len(matobj.items) |->
                        _convert_matobj(matobj.items[i], convert_arrays)])
    ELSE IF matobj.tag = "ndarray"
        THEN IF matobj.dtype = "object" \/ convert_arrays
                 THEN _convert_matobj(PyList(matobj.items), convert_arrays)
             ELSE IF Len(matobj.items) = 1 THEN item_of(matobj)
             ELSE matobj
    ELSE IF matobj.tag = "generic" THEN item_of(matobj)
    ELSE IF matobj.tag = "bytes" THEN _decode_bytes(matobj)
    ELSE matobj

ReservedKeys == {"__header__", "__version__", "__globals__"}

simplify_loadmat_dict(mat_dict, convert_arrays) ==
    [k \in DOMAIN mat_dict |->
        IF k \in ReservedKeys THEN mat_dict[k] ELSE _convert_matobj(mat_dict[k], convert_arrays)]

\* the bytes of the model: "A", the two bytes of U+00E9, and 0xFF
ByteValues == {65, 195, 169, 255}

ByteStrings == UNION { [1..n -> ByteValues] : n \in 0..MaxBytes }

\* the leaves of a loaded value: scalars, text, byte strings, numpy scalars and arrays
Leaves ==
    { PyBytes(b) : b \in ByteStrings }
    \cup { PyNumber(Float(1)), PyText(<<65>>),
           NpGeneric("float64", <<>>, Float(1)), NpGeneric("S", <<65>>, NaN),
           NdArray("float64", <<PyNumber(Float(1))>>),
           NdArray("float64", <<PyNumber(Float(1)), PyNumber(Float(2))>>),
           NdArray("S", <<PyBytes(<<65>>)>>),
           NdArray("S", <<PyBytes(<<65>>), PyBytes(<<255>>)>>) }

\* the leaves held by the lists, arrays and records of the model
Elements ==
    { PyNumber(Float(1)), PyBytes(<<65>>), PyBytes(<<255>>),
      NpGeneric("S", <<65>>, NaN),
      NdArray("float64", <<PyNumber(Float(1))>>),
      NdArray("S", <<PyBytes(<<65>>)>>) }

ElementLists == UNION { [1..n -> Elements] : n \in 0..MaxItems }

Nested ==
    { PyList(items) : items \in ElementLists }
    \cup { NdArray("object", items) : items \in ElementLists }
    \cup { MatStruct(<<"name">>, <<e>>) : e \in Elements }
    \cup { PyDict(<<"name">>, <<e>>) : e \in Elements }

Values ==
    Leaves \cup Nested
    \cup { PyList(<<v>>) : v \in Nested }
    \cup { MatStruct(<<"engine">>, <<v>>) : v \in Nested }

\* the dict loadmat returns: the header and one variable
InitNormalize ==
    /\ raw \in { ("__header__" :> PyBytes(<<65, 255>>)) @@ ("engine" :> v) : v \in Values }
    /\ pairs = <<>>
    /\ parameters = <<>>
    /\ applied = FALSE
    /\ last = NoCall
    /\ views = <<>>
    /\ nops = 0

\* raw = reader.simplify_loadmat_dict(raw, convert_arrays)
Normalize(convert_arrays) ==
    /\ nops < MaxNormalize
    /\ raw' = simplify_loadmat_dict(raw, convert_arrays)
    /\ last' = [NoCall EXCEPT !.op = "simplify_loadmat_dict", !.args = <<convert_arrays>>,
                              !.before = [raw |-> raw, pairs |-> pairs, applied |-> applied,
                                          args |-> last.args]]
    /\ nops' = nops + 1
    /\ UNCHANGED <<pairs, parameters, applied, views>>

NextNormalize == \E convert_arrays \in BOOLEAN : Normalize(convert_arrays)

SpecNormalize == InitNormalize /\ [][NextNormalize]_vars

\* the orders of the entries of a dict
Reorderings(ps) ==
    { [i \in 1..Len(ps) |-> ps[f[i]]] : f \in Orderings(1..Len(ps)) }

DiscoveryNames == DOMAIN Spelling

\* an IFile loaded with avl_correction=False: model_post_init leaves the channels
\* as loaded and registers no pair
InitDiscovery ==
    /\ raw \in UNION { [D -> PipelineBlocks] : D \in SUBSET DiscoveryNames }
    /\ pairs = <<>>
    /\ applied = FALSE
    /\ parameters = <<>>
    /\ last = NoCall
    /\ views = <<>>
    /\ nops = 0

\* set_correction_pairs(found) for found = _find_reference_channels(), its entries
\* in any order; the model lets the caller do this only as the first call
SetDiscoveredPairs ==
    /\ nops = 0
    /\ nops < MaxPipelineOps
    /\ \E found \in _find_reference_channels(raw) :
           \E ps \in Reorderings(found) :
               /\ pairs' = ps
               /\ last' = [NoCall EXCEPT !.op = "set_correction_pairs", !.args = ps]
    /\ applied' = FALSE
    /\ nops' = nops + 1
    /\ UNCHANGED <<raw, parameters, views>>

\* reapply_corrections() over the discovered pairs
ReapplyDiscovered ==
    /\ nops >= 1
    /\ ReapplyCorrections

NextDiscovery ==
    \/ SetDiscoveredPairs
    \/ ReapplyDiscovered

SpecDiscovery == InitDiscovery /\ [][NextDiscovery]_vars

-----------------------------------------------------------------------------
(* core/domain/axis.py, core/domain/channel.py: the views a caller holds *)

\* what an attribute of a view holds: the object itself, named by its key in the
\* container ("raw" for the container), or an object of its own
Ref(key) == [ref |-> key, copy |-> <<>>]

Copy(obj) == [ref |-> "", copy |-> obj]

Deref(target, container) ==
    IF target.ref = "" THEN target.copy
    ELSE IF target.ref = "raw" THEN container
    ELSE container[target.ref]

\* a view; then is the container as it was when the view was made
View(cls, name, target, container) ==
    [cls |-> cls, name |-> name, target |-> target, then |-> container]

\* a view that keeps a copy of the block
ChannelView__init__copy(name, container) ==
    View("ChannelView", name, Copy(container[name]), container)

\* ChannelView.__init__: self._block = channel_block or {}, and the block of a
\* channel has data and axis, so it is not empty: _block is the block itself
ChannelView__init__(name, container) ==
    View("ChannelView", name, Ref(name), container)

\* AxisView.__init__: self._raw = raw or {}, and the container of an IFile
\* holds "_test", so it is not empty: _raw is the container itself
AxisView__init__(kind, container) ==
    View("AxisView", kind, Ref("raw"), container)

Reads == {"GENERAL", "VALUES", "SAMPLES"}

\* ChannelView.__getitem__(what) over the block the view holds
ChannelView__getitem__(name, block, what) ==
    IF what = "GENERAL" THEN _build_channel_general(name, block)
    ELSE IF what = "VALUES" THEN _build_values_mapping(name, block)
    ELSE _flatten_primary(block)

\* two crank-angle channels that differ in level and in axis
ViewBlocks ==
    { Channel(Samples(MaxRows, MaxCycles, 0), Ramp(MaxRows, -1, 1), "bar"),
      Channel(Samples(MaxRows, MaxCycles, 2), Ramp(MaxRows, -1, 2), "bar") }

InitViews ==
    /\ raw \in [Names -> ViewBlocks]
    /\ pairs = <<>>
    /\ parameters = <<>>
    /\ applied = FALSE
    /\ last = NoCall
    /\ views = <<>>
    /\ nops = 0

\* a read returns a value and changes nothing, so the model lets it be the last call
NoReadYet == last.op \notin Reads

\* view = ifile[kind]
GetAxisView(kind) ==
    /\ nops < MaxViewOps - 1
    /\ NoReadYet
    /\ Len(views) < MaxViews
    /\ views' = Append(views, AxisView__init__(kind, raw))
    /\ last' = [NoCall EXCEPT !.op = "IFile.__getitem__", !.args = <<kind>>]
    /\ nops' = nops + 1
    /\ UNCHANGED <<raw, pairs, parameters, applied>>

\* view = ifile[kind][name]
GetChannelView(kind, name) ==
    /\ nops < MaxViewOps - 1
    /\ NoReadYet
    /\ Len(views) < MaxViews
    /\ LET got == AxisView__getitem__(raw, kind, name)
       IN  /\ views' = IF got.exc = NoExc
                           THEN Append(views, ChannelView__init__(name, raw))
                           ELSE views
           /\ last' = [NoCall EXCEPT !.op = "AxisView.__getitem__", !.args = <<kind, name>>,
                                     !.exc = got.exc, !.ret = got.ret]
    /\ nops' = nops + 1
    /\ UNCHANGED <<raw, pairs, parameters, applied>>

\* apply_offset_correction(raw, meas_name, ref_name) while views are held
CorrectUnderViews(meas_name, ref_name) ==
    /\ nops < MaxViewOps - 1
    /\ NoReadYet
    /\ LET res == apply_offset_correction(raw, meas_name, ref_name)
       IN  /\ raw' = res.raw
           /\ last' = [op |-> "apply_offset_correction", args |-> <<meas_name, ref_name>>,
                       exc |-> res.exc, ret |-> "None", skipped |-> res.skipped,
                       before |-> [raw |-> raw, pairs |-> pairs, applied |-> applied,
                                   args |-> last.args]]
    /\ nops' = nops + 1
    /\ UNCHANGED <<pairs, parameters, applied, views>>

\* views[i][what] for a ChannelView
ReadChannel(i, what) ==
    /\ nops < MaxViewOps
    /\ NoReadYet
    /\ i \in 1..Len(views)
    /\ views[i].cls = "ChannelView"
    /\ last' = [NoCall EXCEPT !.op = what, !.args = <<i, views[i].name>>,
                              !.ret = ChannelView__getitem__(views[i].name,
                                                             Deref(views[i].target, raw), what)]
    /\ nops' = nops + 1
    /\ UNCHANGED <<raw, pairs, parameters, applied, views>>

\* views[i][name][what] for an AxisView
ReadThroughAxis(i, name, what) ==
    /\ nops < MaxViewOps
    /\ NoReadYet
    /\ i \in 1..Len(views)
    /\ views[i].cls = "AxisView"
    /\ LET container == Deref(views[i].target, raw)
           got       == AxisView__getitem__(container, views[i].name, name)
       IN  last' = IF got.exc # NoExc
                       THEN [NoCall EXCEPT !.op = what, !.args = <<i, name>>, !.exc = got.exc]
                       ELSE [NoCall EXCEPT !.op = what, !.args = <<i, name>>,
                                !.ret = ChannelView__getitem__(
                                            name,
                                            Deref(ChannelView__init__(name, container).target,
                                                  container),
                                            what)]
    /\ nops' = nops + 1
    /\ UNCHANGED <<raw, pairs, parameters, applied, views>>

NextViews ==
    \/ \E kind \in AxisKinds : GetAxisView(kind)
    \/ \E kind \in AxisKinds, name \in Names : GetChannelView(kind, name)
    \/ \E m \in Names, r \in Names : CorrectUnderViews(m, r)
    \/ \E i \in 1..MaxViews, what \in Reads : ReadChannel(i, what)
    \/ \E i \in 1..MaxViews, name \in Names, what \in Reads : ReadThroughAxis(i, name, what)

SpecViews == InitViews /\ [][NextViews]_vars

-----------------------------------------------------------------------------
(* Vocabulary of the properties *)

Called(meas_name, ref_name) ==
    /\ last.op = "apply_offset_correction"
    /\ last.args = <<meas_name, ref_name>>

\* the entry is a channel: it has data and an axis
IsChannel(container, name) ==
    /\ name \in DOMAIN container
    /\ {"data", "axis"} \subseteq container[name].keys

Is2D(container, name) == IsChannel(container, name) /\ Len(container[name].data.shape) = 2

Rows(b) == b.data.shape[1]

Cycles(b) == b.data.shape[2]

\* element (i, c) of a 2-D block, i and c counted from 1
At(b, i, c) == b.data.flat[(i - 1) * Cycles(b) + c]

\* one axis point per row of data, at least one row
AxisFitsRows(b) == Len(b.axis) = Rows(b) /\ Rows(b) >= 1

Finite(b) == \A k \in 1..Len(b.data.flat) : b.data.flat[k][2] # 0

-----------------------------------------------------------------------------
(* C2: when the measured and the reference data are both 2-D and differ in their
   cycle count, apply_offset_correction raises the cycle-count-mismatch error and
   the data of both blocks is what it was before the call. *)
C2_CycleMismatchRaises ==
    \A m \in Names, r \in Names :
        ( /\ Called(m, r)
          /\ Is2D(last.before.raw, m)
          /\ Is2D(last.before.raw, r)
          /\ Cycles(last.before.raw[m]) # Cycles(last.before.raw[r]) )
        => /\ last.exc = CycleCountMismatch
           /\ raw[m].data = last.before.raw[m].data
           /\ raw[r].data = last.before.raw[r].data

C2_Witness ==
    \E m \in Names, r \in Names :
        /\ Called(m, r)
        /\ Is2D(last.before.raw, m)
        /\ Is2D(last.before.raw, r)
        /\ Cycles(last.before.raw[m]) = MaxCycles
        /\ Cycles(last.before.raw[r]) = 1
        /\ last.exc = CycleCountMismatch

Increasing(axis) == \A i \in 1..Len(axis), j \in 1..Len(axis) : i < j => FLt(axis[i], axis[j])

\* in every cycle the measured column is the reference column minus a constant
ColumnsDifferByConstant(bm, br) ==
    /\ Rows(bm) = Rows(br)
    /\ Cycles(bm) = Cycles(br)
    /\ \A c \in 1..Cycles(bm), i \in 1..Rows(bm) :
           FSub(At(br, i, c), At(bm, i, c)) = FSub(At(br, 1, c), At(bm, 1, c))

\* the case of C3 for a call (m, r)
SameAxisShifted(bm, br) ==
    /\ bm.axis = br.axis
    /\ Increasing(bm.axis)
    /\ AxisFitsRows(bm)
    /\ Finite(bm)
    /\ Finite(br)
    /\ ColumnsDifferByConstant(bm, br)

(* C3: offset-correction exactness.  For 2-D blocks of numbers that share the same
   increasing axis (one point per sample) and the same cycle count, if in every
   cycle the measured column is the reference column minus a constant, the call
   completes and the measured data then equals the reference data in every sample
   of every cycle. *)
C3_OffsetExact ==
    \A m \in Names, r \in Names :
        ( /\ Called(m, r)
          /\ Is2D(last.before.raw, m)
          /\ Is2D(last.before.raw, r)
          /\ SameAxisShifted(last.before.raw[m], last.before.raw[r]) )
        => /\ last.exc = NoExc
           /\ raw[m].data = last.before.raw[r].data

C3_Witness ==
    \E m \in Names, r \in Names :
        /\ Called(m, r)
        /\ Is2D(last.before.raw, m)
        /\ Is2D(last.before.raw, r)
        /\ SameAxisShifted(last.before.raw[m], last.before.raw[r])
        /\ Rows(last.before.raw[m]) = MaxRows
        /\ Cycles(last.before.raw[m]) = MaxCycles
        /\ \A c \in 1..MaxCycles : At(last.before.raw[m], 1, c) # At(last.before.raw[r], 1, c)
        /\ raw[m].data = last.before.raw[r].data

\* no point of the reference axis lies inside the range of the measured axis
AxesDisjoint(bm, br) ==
    \A k \in 1..Len(br.axis) :
        FLt(br.axis[k], bm.axis[1]) \/ FLt(bm.axis[Len(bm.axis)], br.axis[k])

\* no position of cycle c is valid in both channels
NoValidPosition(bm, br, c) ==
    \/ AxesDisjoint(bm, br)
    \/ \A i \in 1..Rows(br) : At(br, i, c)[2] = 0
    \/ \A i \in 1..Rows(bm) : At(bm, i, c)[2] = 0

\* two 2-D channels with the same cycle count, each with one increasing axis point per sample
Correctable(container, m, r) ==
    /\ Is2D(container, m)
    /\ Is2D(container, r)
    /\ Cycles(container[m]) = Cycles(container[r])
    /\ AxisFitsRows(container[m])
    /\ AxisFitsRows(container[r])
    /\ Increasing(container[m].axis)
    /\ Increasing(container[r].axis)

(* C4: offset-correction degeneracy.  When the call is given two correctable
   channels and, for a cycle, no point of the reference axis lies inside the
   measured axis's range or no position is valid in both channels, no error is
   raised, the offset of that cycle is exactly 0.0 and the measured data of that
   cycle is what it was before the call. *)
C4_DegenerateCycleUnchanged ==
    \A m \in Names, r \in Names :
        ( Called(m, r) /\ Correctable(last.before.raw, m, r) )
        => LET bm == last.before.raw[m]
               br == last.before.raw[r]
           IN  \A c \in 1..Cycles(bm) :
                   NoValidPosition(bm, br, c)
                   => /\ last.exc = NoExc
                      /\ per_cycle_offset(bm.data, br.data, bm.axis, br.axis)[c] = Float(0)
                      /\ \A i \in 1..Rows(bm) : At(raw[m], i, c) = At(bm, i, c)

C4_Witness ==
    \E m \in Names, r \in Names :
        /\ Called(m, r)
        /\ m # r
        /\ Correctable(last.before.raw, m, r)
        /\ AxesDisjoint(last.before.raw[m], last.before.raw[r])
        /\ Cycles(last.before.raw[m]) = MaxCycles
        /\ Rows(last.before.raw[m]) = MaxRows
        /\ Rows(last.before.raw[r]) = MaxRows
        /\ \E i \in 1..MaxRows : At(last.before.raw[m], i, 1) # At(last.before.raw[r], i, 1)
        /\ last.exc = NoExc
        /\ raw[m].data = last.before.raw[m].data

(* C7: a call of apply_offset_correction that returns changes nothing but the
   data of the measured block: its axis and metadata, the reference block, every
   other entry and the correction-pairs registry are what they were, and so is
   the CA/CY classification of every channel. *)
C7_OnlyMeasuredDataChanges ==
    \A m \in Names, r \in Names :
        ( Called(m, r) /\ last.exc = NoExc )
        => /\ DOMAIN raw = DOMAIN last.before.raw
           /\ \A n \in DOMAIN raw : n # m => raw[n] = last.before.raw[n]
           /\ m \in DOMAIN raw
                => [raw[m] EXCEPT !.data = last.before.raw[m].data] = last.before.raw[m]
           /\ r \in DOMAIN raw => raw[r] = last.before.raw[r]
           /\ pairs = last.before.pairs
           /\ \A n \in DOMAIN raw :
                  _classify_axis(raw[n].axis) = _classify_axis(last.before.raw[n].axis)

C7_Witness ==
    \E m \in Names, r \in Names :
        /\ Called(m, r)
        /\ last.exc = NoExc
        /\ ~last.skipped
        /\ raw[m].data # last.before.raw[m].data
        /\ _classify_axis(raw[m].axis) = "CA"
        /\ _classify_axis(raw[r].axis) = "CY"

(* C10: for two channels of the container, apply_offset_correction completes or
   fails with one of two errors, data not 2-D or cycle counts differ; for 2-D data
   with equal cycle counts and any axis lengths it completes. *)
C10_OnlyTwoErrors ==
    \A m \in Names, r \in Names :
        ( Called(m, r) /\ IsChannel(last.before.raw, m) /\ IsChannel(last.before.raw, r) )
        => /\ last.exc \in {NoExc, Expected2D, CycleCountMismatch}
           /\ ( /\ Is2D(last.before.raw, m)
                /\ Is2D(last.before.raw, r)
                /\ Cycles(last.before.raw[m]) = Cycles(last.before.raw[r]) )
              => last.exc = NoExc

-----------------------------------------------------------------------------
(* The correction pipeline *)

Reapplied == last.op = "reapply_corrections"

\* no reference of the registry is also one of its measured channels
NoReferenceIsMeasured(ps) == \A i \in 1..Len(ps), j \in 1..Len(ps) : ps[i][2] # ps[j][1]

(* C1, as stated: once the pipeline has been applied to every pair of
   correction_pairs, reapply_corrections with the same pairs leaves the data of
   every channel equal to its data after that application. *)
C1_ReapplyIdempotent ==
    (Reapplied /\ last.before.applied)
    => /\ last.exc = NoExc
       /\ raw = last.before.raw

(* C1, amended: the same, for a registry in which no reference channel is itself
   a measured channel, as in every registry _find_reference_channels builds. *)
C1_ReapplyIdempotentNoChain ==
    (Reapplied /\ last.before.applied /\ NoReferenceIsMeasured(pairs))
    => /\ last.exc = NoExc
       /\ raw = last.before.raw

C1_Witness ==
    /\ Reapplied
    /\ last.before.applied
    /\ NoReferenceIsMeasured(pairs)
    /\ Len(pairs) = 2
    /\ \A i \in 1..2 :
          /\ Correctable(raw, pairs[i][1], pairs[i][2])
          /\ raw[pairs[i][1]].axis # raw[pairs[i][2]].axis
    /\ raw = last.before.raw

-----------------------------------------------------------------------------
(* The lookup collections *)

\* name is an entry with data and axis whose axis classifies to kind
IsChannelOfKind(container, kind, name) ==
    /\ IsChannel(container, name)
    /\ _classify_axis(container[name].axis) = kind

AxisLookup(op, kind, name) == last.op = op /\ last.args = <<kind, name>>

(* C8, as stated: for a view of kind K and a name that is not a channel of kind K,
   the membership test and the indexed lookup both raise the not-found error. *)
C8_BothRaiseNotFound ==
    \A kind \in AxisKinds, name \in Names :
        ~IsChannelOfKind(raw, kind, name)
        => /\ AxisLookup("AxisView.__getitem__", kind, name) => last.exc = KeyErrorExc
           /\ AxisLookup("AxisView.__contains__", kind, name) => last.exc = KeyErrorExc

(* C8, amended: for a view of kind K and a name that is not a channel of kind K,
   the indexed lookup raises the not-found error, and the membership test raises
   nothing and answers False. *)
C8_LookupRaisesMembershipFalse ==
    \A kind \in AxisKinds, name \in Names :
        ~IsChannelOfKind(raw, kind, name)
        => /\ AxisLookup("AxisView.__getitem__", kind, name) => last.exc = KeyErrorExc
           /\ AxisLookup("AxisView.__contains__", kind, name)
                => (last.exc = NoExc /\ last.ret = FALSE)

\* a lookup, in the CA view, of a channel that exists and classifies to CY
C8_Witness ==
    \E name \in Names :
        /\ IsChannelOfKind(raw, "CY", name)
        /\ AxisLookup("AxisView.__getitem__", "CA", name)
        /\ last.exc = KeyErrorExc

(* C9: ParameterIndex over any container, also one whose parameters mapping is
   empty: the lookup of an absent name raises the not-found error and no other,
   the lookup of a present name returns its view, and length and iteration report
   the keys of parameters in insertion order. *)
C9_ParameterIndexContract ==
    /\ \A key \in ParameterKeys :
          (last.op = "ParameterIndex.__getitem__" /\ last.args = <<key>>)
          => IF InKeys(key, parameters)
                THEN last.exc = NoExc /\ last.ret = key
                ELSE last.exc = KeyErrorExc
    /\ last.op = "ParameterIndex.__len__" => (last.exc = NoExc /\ last.ret = Len(parameters))
    /\ last.op = "ParameterIndex.__iter__" => (last.exc = NoExc /\ last.ret = parameters)

-----------------------------------------------------------------------------
(* The VALUES mapping *)

BuiltValues(name) == last.op = "VALUES" /\ last.args = <<name>>

\* the column of the mapping under key; <<>> when the key is missing
ColumnOf(mapping, key) ==
    IF \E i \in 1..Len(mapping) : mapping[i][1] = key
        THEN (CHOOSE item \in { mapping[i] : i \in 1..Len(mapping) } : item[1] = key)[2]
        ELSE <<>>

HasKey(mapping, key) == \E i \in 1..Len(mapping) : mapping[i][1] = key

(* C5: for a 2-D block whose axis length is the column count or the row count of
   data, whenever element k of the data column is data[i][j], CA[k] is axis[j] if
   the axis matches the columns and axis[i] if it matches the rows. *)
C5_AxisAlignedWithData ==
    \A name \in Names :
        (BuiltValues(name) /\ Is2D(raw, name) /\ size(raw[name].data) > 0
            /\ Len(raw[name].axis) \in {raw[name].data.shape[1], raw[name].data.shape[2]})
        => LET data == raw[name].data
               axis == raw[name].axis
               ca   == ColumnOf(last.ret, Key("CA", 0))
               col  == ColumnOf(last.ret, Key(name, 0))
           IN  /\ Len(ca) = size(data)
               /\ Len(col) = size(data)
               /\ \A k \in 1..Len(col), i \in 1..data.shape[1], j \in 1..data.shape[2] :
                      col[k] = data.flat[(i - 1) * data.shape[2] + j]
                      => ca[k] = (IF Len(axis) = data.shape[2] THEN axis[j] ELSE axis[i])

(* C6: for a block of any rank, the VALUES mapping has the key "CA" and at least
   one data column, and every data column is as long as the "CA" column. *)
C6_ColumnsAsLongAsCA ==
    \A name \in Names :
        BuiltValues(name)
        => /\ HasKey(last.ret, Key("CA", 0))
           /\ Len(last.ret) >= 2
           /\ \A i \in 1..Len(last.ret) :
                  Len(last.ret[i][2]) = Len(ColumnOf(last.ret, Key("CA", 0)))

-----------------------------------------------------------------------------
(* Missing channels *)

\* the pairs of ps whose two names are entries of the container, in order
RECURSIVE PresentPairs(_, _)
PresentPairs(container, ps) ==
    IF ps = <<>> THEN <<>>
    ELSE (IF Head(ps)[1] \in DOMAIN container /\ Head(ps)[2] \in DOMAIN container
             THEN <<Head(ps)>> ELSE <<>>)
         \o PresentPairs(container, Tail(ps))

(* C11: a pair with a name that is not in the container is skipped: it raises
   nothing and changes nothing, and the pairs after it are still processed.  So
   reapply_corrections ends as it would over the registry without such pairs,
   and over a registry of such pairs only it leaves the container as it was. *)
C11_MissingPairSkipped ==
    Reapplied
    => LET present == PresentPairs(last.before.raw, last.before.pairs)
           rest    == reapply_corrections(last.before.raw, present)
       IN  /\ present = <<>> => (last.exc = NoExc /\ raw = last.before.raw)
           /\ last.exc = rest.exc
           /\ raw = rest.raw

\* a registry whose first pair names a missing channel and whose second pair is
\* corrected all the same
C11_Witness ==
    /\ Reapplied
    /\ Len(pairs) = 2
    /\ pairs[1][1] \notin DOMAIN last.before.raw
    /\ pairs[2][1] \in DOMAIN raw
    /\ pairs[2][2] \in DOMAIN raw
    /\ last.exc = NoExc
    /\ raw # last.before.raw

-----------------------------------------------------------------------------
(* The classification of an axis *)

Classified(name) == last.op = "_classify_axis" /\ last.args = <<name>>

\* the positions of s that hold a number
Numbers(s) == { i \in 1..Len(s) : ~isnan(s[i]) }

\* the k-th smallest of the numbers of s
OrderStatistic(s, k) ==
    CHOOSE v \in { s[i] : i \in Numbers(s) } :
        /\ Cardinality({ i \in Numbers(s) : FLt(s[i], v) }) <= k - 1
        /\ Cardinality({ i \in Numbers(s) : ~FLt(v, s[i]) }) >= k

\* the median of the numbers of s is below 1/2 in absolute value
MedianBelowHalf(s) ==
    LET n == Cardinality(Numbers(s))
    IN  /\ n > 0
        /\ LET m == IF n % 2 = 1 THEN OrderStatistic(s, (n + 1) \div 2)
                    ELSE FDiv(FAdd(OrderStatistic(s, n \div 2),
                                   OrderStatistic(s, (n \div 2) + 1)), Float(2))
           IN  FLt(FAbs(m), Frac(1, 2))

(* C12: the classification of an axis is CY for fewer than two samples;
   otherwise it is CA exactly when a sample is negative (the minimum is
   negative) or the median of the consecutive differences is below 0.5 in
   absolute value, and CY otherwise; minimum and median are those of the samples
   and differences that are numbers.  The result is always CA or CY. *)
C12_ClassificationTotal ==
    \A name \in Names :
        Classified(name)
        => LET axis  == raw[name].axis
               steps == [i \in 1..(Len(axis) - 1) |-> FSub(axis[i + 1], axis[i])]
           IN  /\ last.exc = NoExc
               /\ last.ret \in {"CA", "CY"}
               /\ Len(axis) < 2 => last.ret = "CY"
               /\ Len(axis) >= 2 =>
                    (last.ret = "CA"
                        <=> \/ \E i \in 1..Len(axis) : FLt(axis[i], Float(0))
                            \/ MedianBelowHalf(steps))

\* an axis without a negative sample that is CA by its step alone
C12_Witness ==
    \E name \in Names :
        /\ Classified(name)
        /\ Len(raw[name].axis) = MaxAxisLen
        /\ \A i \in 1..Len(raw[name].axis) : ~FLt(raw[name].axis[i], Float(0))
        /\ last.ret = "CA"

-----------------------------------------------------------------------------
(* The VALUES of a parameter *)

\* the value the parameter declares: its `value`; else the first of its `values`;
\* else the block itself as a number; else NaN
DeclaredValue(p) ==
    IF p.type = "dict" /\ "value" \in p.keys THEN p.value
    ELSE IF p.type = "dict" /\ "values" \in p.keys /\ p.values # <<>> THEN p.values[1]
    ELSE IF p.type = "float" THEN PyFloat(p.num)
    ELSE IF p.type = "str" /\ float(p).ok THEN float(p).val
    ELSE PyFloat(NaN)

(* C13: the VALUES of a parameter never raise and have exactly two columns: the
   index column [0], and a column of one element that is the declared `value` (a
   number as a number, a string as a string), else the first element of the
   declared `values`, else the block as a number, else NaN. *)
C13_ParameterValues ==
    \A pname \in ParameterNames :
        (last.op = "ParameterView.VALUES" /\ last.args = <<pname>>)
        => /\ last.exc = NoExc
           /\ Len(last.ret) = 2
           /\ last.ret[1] = <<"", <<PyFloat(Float(0))>> >>
           /\ last.ret[2] = <<pname, <<DeclaredValue(raw[pname])>> >>

-----------------------------------------------------------------------------
(* The normalizer *)

Normalized == last.op = "simplify_loadmat_dict"

\* the characters of UTF-8 bytes below 0xE0, -1 for every byte that is not valid
RECURSIVE decode_strict(_)
decode_strict(b) ==
    IF b = <<>> THEN <<>>
    ELSE IF b[1] < 128 THEN <<b[1]>> \o decode_strict(Tail(b))
    ELSE IF b[1] \in 194..223 /\ Len(b) >= 2 /\ b[2] \in 128..191
        THEN <<(b[1] - 192) * 64 + (b[2] - 128)>> \o decode_strict(SubSeq(b, 3, Len(b)))
    ELSE <<-1>> \o decode_strict(Tail(b))

\* bytes that are valid UTF-8 as their text, any other bytes as they are
_decode_bytes_strict(x) ==
    IF x.tag = "bytes"
        THEN IF \E i \in 1..Len(decode_strict(x.bytes)) : decode_strict(x.bytes)[i] = -1
                 THEN x
                 ELSE PyText(decode_strict(x.bytes))
        ELSE x

(* C14: normalizing a container that is already normalized, with the same
   setting of convert_arrays, returns it unchanged. *)
C14_NormalizeIdempotent ==
    (Normalized /\ last.before.args = last.args) => raw = last.before.raw

(* C15: a bytes value is never an error: bytes that are valid UTF-8 become the
   text they encode, and bytes that are not valid UTF-8 are returned as they are. *)
C15_BytesDecodedOrKept ==
    \A k \in DOMAIN raw :
        (Normalized /\ k \notin ReservedKeys /\ last.before.raw[k].tag = "bytes")
        => /\ last.exc = NoExc
           /\ raw[k] = _decode_bytes_strict(last.before.raw[k])

-----------------------------------------------------------------------------
(* The failure of a batch of corrections *)

\* the container after the corrections ps, one after the other
RECURSIVE AfterCorrections(_, _)
AfterCorrections(container, ps) ==
    IF ps = <<>> THEN container
    ELSE AfterCorrections(apply_offset_correction(container, Head(ps)[1], Head(ps)[2]).raw,
                          Tail(ps))

\* pair k is the first pair of ps whose correction raises
FirstRaising(container, ps, k) ==
    /\ \A i \in 1..(k - 1) :
          apply_offset_correction(AfterCorrections(container, SubSeq(ps, 1, i - 1)),
                                  ps[i][1], ps[i][2]).exc = NoExc
    /\ apply_offset_correction(AfterCorrections(container, SubSeq(ps, 1, k - 1)),
                               ps[k][1], ps[k][2]).exc # NoExc

(* C16: when pair k is the first pair of the registry whose correction raises,
   reapply_corrections raises that error, and it leaves the container as the
   corrections of the pairs before k left it: those are applied, and the measured
   data of pair k and of every pair after it is as it was. *)
C16_BatchStopsAtFirstError ==
    \A k \in 1..Len(pairs) :
        (Reapplied /\ FirstRaising(last.before.raw, pairs, k))
        => /\ last.exc = apply_offset_correction(
                             AfterCorrections(last.before.raw, SubSeq(pairs, 1, k - 1)),
                             pairs[k][1], pairs[k][2]).exc
           /\ raw = AfterCorrections(last.before.raw, SubSeq(pairs, 1, k - 1))
           /\ \A j \in k..Len(pairs) :
                  pairs[j][1] \in DOMAIN raw => raw[pairs[j][1]] = last.before.raw[pairs[j][1]]

\* the first pair is corrected, the second raises
C16_Witness ==
    /\ Reapplied
    /\ Len(pairs) = 2
    /\ last.exc # NoExc
    /\ pairs[1][1] \in DOMAIN raw
    /\ FirstRaising(last.before.raw, pairs, 2)
    /\ raw[pairs[1][1]] # last.before.raw[pairs[1][1]]

-----------------------------------------------------------------------------
(* The flattened samples and the VALUES mapping *)

\* the columns of the mapping other than "CA", one after the other in key order
RECURSIVE DataColumns(_)
DataColumns(mapping) ==
    IF mapping = <<>> THEN <<>>
    ELSE (IF Head(mapping)[1] = Key("CA", 0) THEN <<>> ELSE Head(mapping)[2])
         \o DataColumns(Tail(mapping))

(* C18: for every channel block, the data columns of VALUES, one after the other
   in key order, are the flattened samples of the channel, and the RecordCount of
   GENERAL is the number of those samples, which is the number of elements of
   data. *)
C18_FlattenAgreesWithValues ==
    \A name \in Names :
        /\ BuiltValues(name) =>
              /\ DataColumns(last.ret) = _flatten_primary(raw[name])
              /\ Len(DataColumns(last.ret)) = Prod(raw[name].data.shape)
        /\ (last.op = "_flatten_primary" /\ last.args = <<name>>) =>
              /\ last.ret = DataColumns(_build_values_mapping(name, raw[name]))
              /\ Len(last.ret) = Prod(raw[name].data.shape)
        /\ (last.op = "GENERAL" /\ last.args = <<name>>) =>
              /\ last.ret.RecordCount = Len(_flatten_primary(raw[name]))
              /\ last.ret.RecordCount = Prod(raw[name].data.shape)

\* data of rank 3 with two dimensions as long as the axis, and a column for each
\* of its components
C18_Witness ==
    \E name \in Names :
        /\ BuiltValues(name)
        /\ ndim(raw[name].data) = 3
        /\ raw[name].data.shape[1] = Len(raw[name].axis)
        /\ raw[name].data.shape[2] = Len(raw[name].axis)
        /\ raw[name].data.shape[3] > 1
        /\ Len(last.ret) >= 3

-----------------------------------------------------------------------------
(* Views and corrections *)

(* C17: a read of GENERAL, of VALUES or of the samples of a channel through a
   view returns what the container holds for that channel at the time of the read,
   whether the view was made before or after the corrections. *)
C17_NoStaleViews ==
    \A i \in 1..Len(views), name \in Names, what \in Reads :
        (last.op = what /\ last.args = <<i, name>> /\ last.exc = NoExc)
        => last.ret = ChannelView__getitem__(name, raw[name], what)

\* the samples of a channel read through a ChannelView made before a correction
\* that changed them
C17_Witness ==
    \E i \in 1..Len(views) :
        /\ views[i].cls = "ChannelView"
        /\ last.op = "SAMPLES"
        /\ last.args = <<i, views[i].name>>
        /\ raw[views[i].name].data # views[i].then[views[i].name].data

-----------------------------------------------------------------------------
(* The discovered pairs *)

\* the measured names of the registry
Measured == { pairs[i][1] : i \in 1..Len(pairs) }

\* no correction of ps raises on the container
NoneRaises(container, ps) == reapply_corrections(container, ps).exc = NoExc

(* C19: the discovered pairs pair each crank-angle channel whose name ends with
   SAUG with SDREF and each whose name ends with AUSP with ADREF, when that
   reference is a crank-angle channel, and nothing else; no reference is a
   measured name; and when no pair raises, the container after the corrections
   is the same for every order of the pairs. *)
C19_DiscoveredPairsCommute ==
    nops >= 1
    => LET ca == _channels(raw, "CA")
       IN  /\ \A ch \in DOMAIN raw :
                 /\ (\E i \in 1..Len(pairs) : pairs[i] = <<ch, "SDREF">>)
                    <=> (ch \in ca /\ "SDREF" \in ca /\ endswith(ch, <<"S", "A", "U", "G">>))
                 /\ (\E i \in 1..Len(pairs) : pairs[i] = <<ch, "ADREF">>)
                    <=> (ch \in ca /\ "ADREF" \in ca /\ endswith(ch, <<"A", "U", "S", "P">>))
           /\ \A i \in 1..Len(pairs) :
                 /\ pairs[i][1] \in DOMAIN raw
                 /\ pairs[i][2] \in {"SDREF", "ADREF"}
                 /\ pairs[i][2] \notin Measured
                 /\ \A j \in 1..Len(pairs) : i # j => pairs[i][1] # pairs[j][1]
           /\ (Reapplied /\ last.exc = NoExc)
              => \A ps \in Reorderings(pairs) :
                    /\ NoneRaises(last.before.raw, ps)
                    /\ reapply_corrections(last.before.raw, ps).raw = raw

\* pairs of both references, corrected without a raise, and a channel changed
C19_Witness ==
    /\ nops = 2
    /\ Reapplied
    /\ last.exc = NoExc
    /\ \E i, j \in 1..Len(pairs) : pairs[i][2] = "SDREF" /\ pairs[j][2] = "ADREF"
    /\ \E i, j \in 1..Len(pairs) :
          /\ i # j
          /\ raw[pairs[i][1]] # last.before.raw[pairs[i][1]]
          /\ raw[pairs[j][1]] # last.before.raw[pairs[j][1]]

====
